---------------------------- MODULE Spec2Model ----------------------------
(***************************************************************************)
(* Dynamic Memory Management Visualizer (src/main.py).                     *)
(*                                                                         *)
(* Two simulation engines are modelled:                                    *)
(*   - the page-replacement loops simulate_fifo / simulate_lru, one loop   *)
(*     iteration per step, as called by paging_simulation;                 *)
(*   - the command loop of segmentation_simulation, one command per step,  *)
(*     with the pure helpers merge_free_list and allocate_segment.         *)
(* Rendering (matplotlib) is not modelled; what the program prints for a   *)
(* segmentation command is kept in the variable out.                       *)
(***************************************************************************)
EXTENDS Integers, Sequences, FiniteSets, TLC

VARIABLES
    mode,               \* which simulation main() dispatched to
    \* ---- paging_simulation / simulate_fifo / simulate_lru ----
    page_seq,           \* the reference string
    frame_count,        \* number of frames
    algo,               \* "fifo" or "lru"
    frames,             \* list of resident pages, by slot
    queue,              \* simulate_fifo: FIFO order
    usage_order,        \* simulate_lru: recency order
    states,             \* list of snapshots
    fault_flags,        \* list of booleans
    faults,             \* fault counter
    pos,                \* number of references fully processed by the for loop
    pc,                 \* "loop", "return", or the exception that ended the run
    \* ---- segmentation_simulation ----
    memory_size,
    free_list,          \* list of <<start, size>>
    allocated_segments, \* dict: segment id -> <<start, size>>
    out,                \* what the last command printed
    nonpos,             \* number of allocate commands read with a size <= 0
    roundtrip,          \* history: free list and table before the last successful
                        \* allocate, while it is followed at once by its deallocate
    \* ---- merge_free_list called on its own ----
    calls               \* history: the list passed in, then the list each call returned

pagingVars == <<page_seq, frame_count, algo, frames, queue, usage_order,
                states, fault_flags, faults, pos, pc>>
segVars == <<memory_size, free_list, allocated_segments, out, nonpos,
             roundtrip>>
vars == <<mode, pagingVars, segVars, calls>>

-----------------------------------------------------------------------------
(* Bounds of the model *)

\* pages of the enumerated reference strings are 0..MaxPage
MaxPage == 2
\* enumerated reference strings have at most MaxLen references
MaxLen == 4
\* enumerated frame counts are 0..MaxFrames
MaxFrames == 3

\* simulate_lru run beside itself with one more frame: reference strings over
\* pages 0..LruMaxPage of at most LruMaxLen references
LruMaxPage == 3
LruMaxLen == 5

\* segment ids are the tokens "1" .. "MaxSegIds"
MaxSegIds == 2
\* requested sizes are -MaxNeg .. MaxSize
MaxSize == 3
MaxNeg == 2
\* entered memory sizes are at most MaxMem
MaxMem == 4
\* at most MaxNonPos allocate commands with a size <= 0 are entered
MaxNonPos == 1

\* merge_free_list on its own: lists of at most MergeMaxBlocks blocks, with starts
\* 0..MergeMaxStart and sizes -1..MergeMaxSize, merged MaxCalls times in a row
MergeMaxBlocks == 3
MergeMaxStart == 2
MergeMaxSize == 1
MaxCalls == 2

(* Program constants *)

\* segmentation_simulation: the memory size used when the input is invalid
DefaultMemorySize == 100

\* paging_simulation: the reference string used when the input is empty or invalid
DefaultPageSeq == <<7, 0, 1, 2, 0, 3, 0, 4, 2, 3, 0, 3, 2>>
\* paging_simulation: the frame count used when the input is invalid
DefaultFrameCount == 3

-----------------------------------------------------------------------------
(* Sequence helpers (Python list operations) *)

Range(s) == {s[i] : i \in 1..Len(s)}

\* the front element is not looked at
In_ExceptFront(x, s) == \E i \in 2..Len(s) : s[i] = x

\* x in s
In(x, s) == \E i \in 1..Len(s) : s[i] = x

\* the front position is returned for any x that is present
IndexOf_Front(s, x) == IF \E i \in 1..Len(s) : s[i] = x THEN 1 ELSE 0

\* s.index(x): the first position holding x (1-based here); 0 when absent
IndexOf(s, x) ==
    IF In(x, s) THEN CHOOSE i \in 1..Len(s) : s[i] = x /\ \A j \in 1..(i-1) : s[j] # x
    ELSE 0

\* s.remove(x): deletes the first occurrence of x
Remove(s, x) ==
    LET i == IndexOf(s, x)
    IN  [j \in 1..(Len(s) - 1) |-> IF j < i THEN s[j] ELSE s[j + 1]]

\* s.pop(i) for a 1-based position i: the list without that element
PopAt(s, i) == [j \in 1..(Len(s) - 1) |-> IF j < i THEN s[j] ELSE s[j + 1]]

\* all sequences over S of length at most n
SeqsUpTo(S, n) == UNION {[1..k -> S] : k \in 0..n}

-----------------------------------------------------------------------------
(* Paging *)

\* the copy is not padded
Snapshot_NoPad(fr, fc) == fr

\* state_snapshot: frames.copy() padded with '-' while shorter than frame_count
Snapshot(fr, fc) ==
    IF Len(fr) >= fc THEN fr
    ELSE fr \o [j \in 1..(fc - Len(fr)) |-> "-"]

\* every entry is the same list object: the earlier entries show the new snapshot
AppendState_Aliased(trace, state_snapshot) ==
    [i \in 1..(Len(trace) + 1) |-> state_snapshot]

\* states.append(state_snapshot), state_snapshot being a copy of frames
AppendState(trace, state_snapshot) == Append(trace, state_snapshot)

\* faults += 1
CountFault_Forget(n) == n

CountFault(n) == n + 1

\* old_page = queue.pop(0): the page at the head of the FIFO queue
FifoOldPage_Newest(q) == q[Len(q)]

FifoOldPage(q) == Head(q)

\* lru_page = usage_order.pop(0): the page at the head of the recency list
LruPage_Newest(order) == order[Len(order)]

LruPage(order) == Head(order)

\* usage_order.remove(page); usage_order.append(page)
MarkUsed_Skip(order, page) == order

\* the page is appended without being removed first
MarkUsed_NoRemove(order, page) == Append(order, page)

MarkUsed(order, page) == Append(Remove(order, page), page)

\* paging_simulation: the inputs read, then the call of simulate_fifo/simulate_lru
InitPaging ==
    /\ mode = "paging"
    /\ page_seq \in SeqsUpTo(0..MaxPage, MaxLen) \cup {DefaultPageSeq}
    /\ frame_count \in (0..MaxFrames) \cup {DefaultFrameCount}
    /\ algo \in {"fifo", "lru"}
    /\ frames = <<>>
    /\ queue = <<>>
    /\ usage_order = <<>>
    /\ states = <<>>
    /\ fault_flags = <<>>
    /\ faults = 0
    /\ pos = 0
    /\ pc = "loop"
    /\ memory_size = 0
    /\ free_list = <<>>
    /\ allocated_segments = <<>>
    /\ out = [msg |-> ""]
    /\ nonpos = 0
    /\ roundtrip = [phase |-> "none"]
    /\ calls = <<>>

\* one iteration of the for loop of simulate_fifo
FifoStep ==
    /\ mode = "paging" /\ algo = "fifo" /\ pc = "loop" /\ pos < Len(page_seq)
    /\ LET page == page_seq[pos + 1] IN
       IF In(page, frames)
       THEN /\ fault_flags' = Append(fault_flags, FALSE)
            /\ states' = AppendState(states, Snapshot(frames, frame_count))
            /\ pos' = pos + 1
            /\ UNCHANGED <<frames, queue, faults, pc>>
       ELSE /\ faults' = CountFault(faults)
            /\ fault_flags' = Append(fault_flags, TRUE)
            /\ IF Len(frames) < frame_count
               THEN /\ frames' = Append(frames, page)
                    /\ queue' = Append(queue, page)
                    /\ states' = AppendState(states, Snapshot(frames', frame_count))
                    /\ pos' = pos + 1
                    /\ UNCHANGED pc
               ELSE IF queue = <<>>
               THEN \* queue.pop(0) raises IndexError: pop from empty list
                    /\ pc' = "IndexError"
                    /\ UNCHANGED <<frames, queue, states, pos>>
               ELSE LET old_page == FifoOldPage(queue)
                        index == IndexOf(frames, old_page)
                    IN  IF index = 0
                        THEN \* frames.index(old_page) raises ValueError
                             /\ queue' = Tail(queue)
                             /\ pc' = "ValueError"
                             /\ UNCHANGED <<frames, states, pos>>
                        ELSE /\ frames' = [frames EXCEPT ![index] = page]
                             /\ queue' = Append(Tail(queue), page)
                             /\ states' = AppendState(states, Snapshot(frames', frame_count))
                             /\ pos' = pos + 1
                             /\ UNCHANGED pc
    /\ UNCHANGED <<mode, page_seq, frame_count, algo, usage_order, segVars, calls>>

\* one iteration of the for loop of simulate_lru
LruStep ==
    /\ mode = "paging" /\ algo = "lru" /\ pc = "loop" /\ pos < Len(page_seq)
    /\ LET page == page_seq[pos + 1] IN
       IF In(page, frames)
       THEN /\ fault_flags' = Append(fault_flags, FALSE)
            /\ IF In(page, usage_order)
               THEN /\ usage_order' = MarkUsed(usage_order, page)
                    /\ states' = AppendState(states, Snapshot(frames, frame_count))
                    /\ pos' = pos + 1
                    /\ UNCHANGED pc
               ELSE \* usage_order.remove(page) raises ValueError
                    /\ pc' = "ValueError"
                    /\ UNCHANGED <<usage_order, states, pos>>
            /\ UNCHANGED <<frames, faults>>
       ELSE /\ faults' = CountFault(faults)
            /\ fault_flags' = Append(fault_flags, TRUE)
            /\ IF Len(frames) < frame_count
               THEN /\ frames' = Append(frames, page)
                    /\ usage_order' = Append(usage_order, page)
                    /\ states' = AppendState(states, Snapshot(frames', frame_count))
                    /\ pos' = pos + 1
                    /\ UNCHANGED pc
               ELSE IF usage_order = <<>>
               THEN \* usage_order.pop(0) raises IndexError: pop from empty list
                    /\ pc' = "IndexError"
                    /\ UNCHANGED <<frames, usage_order, states, pos>>
               ELSE LET lru_page == LruPage(usage_order)
                        index == IndexOf(frames, lru_page)
                    IN  IF index = 0
                        THEN \* frames.index(lru_page) raises ValueError
                             /\ usage_order' = Tail(usage_order)
                             /\ pc' = "ValueError"
                             /\ UNCHANGED <<frames, states, pos>>
                        ELSE /\ frames' = [frames EXCEPT ![index] = page]
                             /\ usage_order' = Append(Tail(usage_order), page)
                             /\ states' = AppendState(states, Snapshot(frames', frame_count))
                             /\ pos' = pos + 1
                             /\ UNCHANGED pc
    /\ UNCHANGED <<mode, page_seq, frame_count, algo, queue, segVars, calls>>

\* the for loop is exhausted: return states, faults, fault_flags
PagingReturn ==
    /\ mode = "paging" /\ pc = "loop" /\ pos = Len(page_seq)
    /\ pc' = "return"
    /\ UNCHANGED <<mode, page_seq, frame_count, algo, frames, queue, usage_order,
                   states, fault_flags, faults, pos, segVars, calls>>

NextPaging == FifoStep \/ LruStep \/ PagingReturn

SpecPaging == InitPaging /\ [][NextPaging]_vars

\* the locals of simulate_lru before the for loop
LruLocals ==
    [frames |-> <<>>, usage_order |-> <<>>, states |-> <<>>, fault_flags |-> <<>>,
     faults |-> 0, pc |-> "loop"]

\* one iteration of the for loop of simulate_lru, as a function of its locals
LruIteration(st, page, fc) ==
    IF st.pc # "loop" THEN st
    ELSE IF In(page, st.frames)
    THEN IF In(page, st.usage_order)
         THEN [st EXCEPT !.fault_flags = Append(@, FALSE),
                         !.usage_order = MarkUsed(@, page),
                         !.states = AppendState(@, Snapshot(st.frames, fc))]
         ELSE [st EXCEPT !.fault_flags = Append(@, FALSE), !.pc = "ValueError"]
    ELSE LET counted == [st EXCEPT !.faults = CountFault(@),
                                   !.fault_flags = Append(@, TRUE)]
         IN  IF Len(st.frames) < fc
             THEN LET loaded == Append(st.frames, page)
                  IN  [counted EXCEPT !.frames = loaded,
                                      !.usage_order = Append(@, page),
                                      !.states = AppendState(@, Snapshot(loaded, fc))]
             ELSE IF st.usage_order = <<>>
             THEN [counted EXCEPT !.pc = "IndexError"]
             ELSE LET lru_page == LruPage(st.usage_order)
                      index == IndexOf(st.frames, lru_page)
                  IN  IF index = 0
                      THEN [counted EXCEPT !.usage_order = Tail(@), !.pc = "ValueError"]
                      ELSE LET replaced == [st.frames EXCEPT ![index] = page]
                           IN  [counted EXCEPT !.frames = replaced,
                                               !.usage_order = Append(Tail(@), page),
                                               !.states = AppendState(@, Snapshot(replaced, fc))]

\* simulate_lru(page_seq, frame_count): the locals after the last iteration
RECURSIVE simulate_lru(_, _)
simulate_lru(seq, fc) ==
    IF seq = <<>> THEN LruLocals
    ELSE LruIteration(simulate_lru(SubSeq(seq, 1, Len(seq) - 1), fc), seq[Len(seq)], fc)

\* paging_simulation with LRU chosen and at least one frame
InitLru ==
    /\ mode = "paging"
    /\ page_seq \in SeqsUpTo(0..LruMaxPage, LruMaxLen)
    /\ frame_count \in 1..MaxFrames
    /\ algo = "lru"
    /\ frames = <<>>
    /\ queue = <<>>
    /\ usage_order = <<>>
    /\ states = <<>>
    /\ fault_flags = <<>>
    /\ faults = 0
    /\ pos = 0
    /\ pc = "loop"
    /\ memory_size = 0
    /\ free_list = <<>>
    /\ allocated_segments = <<>>
    /\ out = [msg |-> ""]
    /\ nonpos = 0
    /\ roundtrip = [phase |-> "none"]
    /\ calls = <<>>

NextLru == LruStep \/ PagingReturn

SpecLru == InitLru /\ [][NextLru]_vars

-----------------------------------------------------------------------------
(* Tokens of a command line: a token is a sequence of characters *)

DigitChars == <<"0", "1", "2", "3", "4", "5", "6", "7", "8", "9">>

\* the value of each decimal digit
DigitValues == [c \in Range(DigitChars) |-> IndexOf(DigitChars, c) - 1]

IsDigit(c) == c \in DOMAIN DigitValues

DigitVal(c) == DigitValues[c]

RECURSIVE DecValue(_)
DecValue(ds) ==
    IF ds = <<>> THEN 0
    ELSE 10 * DecValue(SubSeq(ds, 1, Len(ds) - 1)) + DigitVal(ds[Len(ds)])

\* int(token): an optional sign and at least one decimal digit; anything else
\* raises ValueError (ok = FALSE)
ParseInt(tok) ==
    LET signed == Len(tok) >= 1 /\ tok[1] \in {"+", "-"}
        body == IF signed THEN Tail(tok) ELSE tok
        ok == Len(body) >= 1 /\ \A i \in 1..Len(body) : IsDigit(body[i])
        mag == IF ok THEN DecValue(body) ELSE 0
    IN  [ok |-> ok, val |-> IF signed /\ tok[1] = "-" THEN 0 - mag ELSE mag]

RECURSIVE DecDigits(_)
DecDigits(n) ==
    IF n < 10 THEN <<DigitChars[n + 1]>>
    ELSE DecDigits(n \div 10) \o <<DigitChars[(n % 10) + 1]>>

\* the text a user types for the integer n
IntToken(n) == IF n < 0 THEN <<"-">> \o DecDigits(0 - n) ELSE DecDigits(n)

SegIds == {IntToken(i) : i \in 1..MaxSegIds}

NonIntTokens == {<<"x">>, <<"-">>}

AllSizeTokens == {IntToken(n) : n \in (0 - MaxNeg)..MaxSize} \cup NonIntTokens

PositiveSizeTokens == {IntToken(n) : n \in 1..MaxSize} \cup NonIntTokens

-----------------------------------------------------------------------------
(* Segmentation: the pure helpers *)

\* free_list.sort(key=lambda x: x[0]): a stable sort by start address
RECURSIVE SortByStart(_)
SortByStart(fl) ==
    IF fl = <<>> THEN <<>>
    ELSE LET front == SortByStart(SubSeq(fl, 1, Len(fl) - 1))
             b == fl[Len(fl)]
             \* b goes after every block whose start is <= its own
             k == Cardinality({i \in 1..Len(front) : front[i][1] <= b[1]})
         IN  SubSeq(front, 1, k) \o <<b>> \o SubSeq(front, k + 1, Len(front))

\* the merged block takes the start of the current block
RECURSIVE MergeScan_KeepCurrentStart(_)
MergeScan_KeepCurrentStart(sorted) ==
    IF sorted = <<>> THEN <<>>
    ELSE LET merged == MergeScan_KeepCurrentStart(SubSeq(sorted, 1, Len(sorted) - 1))
             block == sorted[Len(sorted)]
         IN  IF merged = <<>> THEN <<block>>
             ELSE LET last == merged[Len(merged)]
                  IN  IF last[1] + last[2] = block[1]
                      THEN [merged EXCEPT ![Len(merged)] = <<block[1], last[2] + block[2]>>]
                      ELSE Append(merged, block)

\* the scan of merge_free_list over an already sorted list
RECURSIVE MergeScan(_)
MergeScan(sorted) ==
    IF sorted = <<>> THEN <<>>
    ELSE LET merged == MergeScan(SubSeq(sorted, 1, Len(sorted) - 1))
             block == sorted[Len(sorted)]
         IN  IF merged = <<>> THEN <<block>>
             ELSE LET last == merged[Len(merged)]
                  IN  IF last[1] + last[2] = block[1]
                      THEN [merged EXCEPT ![Len(merged)] = <<last[1], last[2] + block[2]>>]
                      ELSE Append(merged, block)

merge_free_list_NoMerge(fl) == SortByStart(fl)

merge_free_list(fl) == MergeScan(SortByStart(fl))

\* positions of the blocks that can hold size
Fits(fl, size) == {i \in 1..Len(fl) : fl[i][2] >= size}

FirstFit(fl, size) == CHOOSE i \in Fits(fl, size) : \A j \in Fits(fl, size) : i <= j

\* the block is not advanced past the allocated part
allocate_segment_NoAdvance(fl, size) ==
    IF Fits(fl, size) = {} THEN [found |-> FALSE, start |-> 0, free_list |-> fl]
    ELSE LET i == FirstFit(fl, size)
         IN  [found |-> TRUE, start |-> fl[i][1],
              free_list |-> IF fl[i][2] = size THEN PopAt(fl, i)
                            ELSE [fl EXCEPT ![i] = <<fl[i][1], fl[i][2] - size>>]]

\* a block one unit too small is accepted
allocate_segment_OffByOne(fl, size) ==
    LET fits == {i \in 1..Len(fl) : fl[i][2] >= size - 1} IN
    IF fits = {} THEN [found |-> FALSE, start |-> 0, free_list |-> fl]
    ELSE LET i == CHOOSE i \in fits : \A j \in fits : i <= j
         IN  [found |-> TRUE, start |-> fl[i][1],
              free_list |-> IF fl[i][2] = size THEN PopAt(fl, i)
                            ELSE [fl EXCEPT ![i] = <<fl[i][1] + size, fl[i][2] - size>>]]

\* allocate_segment(free_list, size): found = FALSE stands for the None result
allocate_segment(fl, size) ==
    IF Fits(fl, size) = {} THEN [found |-> FALSE, start |-> 0, free_list |-> fl]
    ELSE LET i == FirstFit(fl, size)
         IN  [found |-> TRUE, start |-> fl[i][1],
              free_list |-> IF fl[i][2] = size THEN PopAt(fl, i)
                            ELSE [fl EXCEPT ![i] = <<fl[i][1] + size, fl[i][2] - size>>]]

\* seg_id in allocated_segments
IsAllocated_Never(seg_id, table) == FALSE

IsAllocated(seg_id, table) == seg_id \in DOMAIN table

\* allocated_segments[seg_id] = value
DictSet(table, seg_id, value) ==
    [k \in DOMAIN table \cup {seg_id} |-> IF k = seg_id THEN value ELSE table[k]]

\* the dict left by allocated_segments.pop(seg_id)
DictPop(table, seg_id) == [k \in DOMAIN table \ {seg_id} |-> table[k]]

\* the items listed by sorted(allocated_segments.items(), key=lambda x: x[1][0]),
\* as the set of <<id, <<start, size>>>> pairs printed
SortedItems(table) ==
    {<<k, table[k]>> : k \in DOMAIN table}

-----------------------------------------------------------------------------
(* Segmentation: the command loop *)

NoRoundtrip == [phase |-> "none"]

InitSegWith(sizes) ==
    /\ mode = "segmentation"
    /\ memory_size \in sizes
    /\ free_list = <<<<0, memory_size>>>>
    /\ allocated_segments = <<>>
    /\ out = [msg |-> ""]
    /\ nonpos = 0
    /\ roundtrip = NoRoundtrip
    /\ calls = <<>>
    /\ pc = "loop"
    /\ page_seq = <<>>
    /\ frame_count = 0
    /\ algo = ""
    /\ frames = <<>>
    /\ queue = <<>>
    /\ usage_order = <<>>
    /\ states = <<>>
    /\ fault_flags = <<>>
    /\ faults = 0
    /\ pos = 0

\* segmentation_simulation up to the first prompt: any integer may be entered
InitSeg == InitSegWith((0 - MaxNeg)..MaxMem)

\* the same with memory_size >= 1 entered, or the default after an invalid input
InitSegPos == InitSegWith((1..MaxMem) \cup {DefaultMemorySize})

\* the loop reads a command line; the paging state plays no part
ReadLine ==
    /\ mode = "segmentation" /\ pc = "loop"
    /\ UNCHANGED <<mode, memory_size, page_seq, frame_count, algo, frames, queue,
                   usage_order, states, fault_flags, faults, pos, calls>>

\* "exit": break, then the final listing
Exit ==
    /\ ReadLine
    /\ pc' = "done"
    /\ out' = [msg |-> "Final", segments |-> SortedItems(allocated_segments),
               free |-> SortByStart(free_list)]
    /\ roundtrip' = NoRoundtrip
    /\ UNCHANGED <<free_list, allocated_segments, nonpos>>

\* an empty line: continue
Blank ==
    /\ ReadLine
    /\ out' = [msg |-> ""]
    /\ roundtrip' = NoRoundtrip
    /\ UNCHANGED <<free_list, allocated_segments, nonpos, pc>>

\* parts[0] == "allocate"
Allocate(args) ==
    /\ ReadLine
    /\ UNCHANGED pc
    /\ IF Len(args) # 2
       THEN /\ out' = [msg |-> "InvalidFormat"]
            /\ roundtrip' = NoRoundtrip
            /\ UNCHANGED <<free_list, allocated_segments, nonpos>>
       ELSE LET seg_id == args[1]
                parsed == ParseInt(args[2])
                size == parsed.val
            IN  IF ~parsed.ok
                THEN /\ out' = [msg |-> "InvalidSize"]
                     /\ roundtrip' = NoRoundtrip
                     /\ UNCHANGED <<free_list, allocated_segments, nonpos>>
                ELSE
                /\ IF size <= 0
                   THEN nonpos < MaxNonPos /\ nonpos' = nonpos + 1
                   ELSE UNCHANGED nonpos
                /\ IF IsAllocated(seg_id, allocated_segments)
                   THEN /\ out' = [msg |-> "AlreadyAllocated", seg_id |-> seg_id]
                        /\ roundtrip' = NoRoundtrip
                        /\ UNCHANGED <<free_list, allocated_segments>>
                   ELSE LET r == allocate_segment(free_list, size)
                        IN  /\ free_list' = r.free_list
                            /\ IF r.found
                               THEN /\ allocated_segments' =
                                          DictSet(allocated_segments, seg_id, <<r.start, size>>)
                                    /\ out' = [msg |-> "Allocated", seg_id |-> seg_id,
                                               start |-> r.start, size |-> size]
                                    /\ roundtrip' =
                                          [phase |-> "allocated", seg_id |-> seg_id,
                                           size |-> size, free |-> free_list,
                                           table |-> allocated_segments]
                               ELSE /\ out' = [msg |-> "AllocationFailed"]
                                    /\ roundtrip' = NoRoundtrip
                                    /\ UNCHANGED allocated_segments

\* parts[0] == "deallocate"
Deallocate(args) ==
    /\ ReadLine
    /\ UNCHANGED <<pc, nonpos>>
    /\ IF Len(args) # 1
       THEN /\ out' = [msg |-> "InvalidFormat"]
            /\ roundtrip' = NoRoundtrip
            /\ UNCHANGED <<free_list, allocated_segments>>
       ELSE LET seg_id == args[1] IN
            IF ~IsAllocated(seg_id, allocated_segments)
            THEN /\ out' = [msg |-> "NotFound", seg_id |-> seg_id]
                 /\ roundtrip' = NoRoundtrip
                 /\ UNCHANGED <<free_list, allocated_segments>>
            ELSE LET block == allocated_segments[seg_id] IN
                 /\ allocated_segments' = DictPop(allocated_segments, seg_id)
                 /\ free_list' = merge_free_list(Append(free_list, block))
                 /\ out' = [msg |-> "Deallocated", seg_id |-> seg_id,
                            start |-> block[1], size |-> block[2]]
                 /\ roundtrip' =
                        IF roundtrip.phase = "allocated" /\ roundtrip.seg_id = seg_id
                        THEN [roundtrip EXCEPT !.phase = "deallocated"]
                        ELSE NoRoundtrip

\* parts[0] == "show"
Show(args) ==
    /\ ReadLine
    /\ out' = [msg |-> "Show", segments |-> SortedItems(allocated_segments),
               free |-> SortByStart(free_list)]
    /\ roundtrip' = NoRoundtrip
    /\ UNCHANGED <<free_list, allocated_segments, nonpos, pc>>

\* any other first word
Unknown(args) ==
    /\ ReadLine
    /\ out' = [msg |-> "UnknownCommand"]
    /\ roundtrip' = NoRoundtrip
    /\ UNCHANGED <<free_list, allocated_segments, nonpos, pc>>

\* the argument lists tried for allocate, with the size tokens given
AllocateWrongArity == {<<IntToken(1)>>, <<IntToken(1), IntToken(1), IntToken(1)>>}

AllocateArgs(tokens) == AllocateWrongArity \cup {<<id, t>> : id \in SegIds, t \in tokens}

DeallocateWrongArity == {<<>>, <<IntToken(1), IntToken(1)>>}

DeallocateArgs == DeallocateWrongArity \cup {<<id>> : id \in SegIds}

NextSegWith(tokens) ==
    \/ Exit
    \/ Blank
    \/ \E args \in AllocateArgs(tokens) : Allocate(args)
    \/ \E args \in DeallocateArgs : Deallocate(args)
    \/ \E args \in {<<>>, <<IntToken(1)>>} : Show(args)
    \/ \E args \in {<<>>} : Unknown(args)

\* every size a user can type, negative and zero included
NextSeg == NextSegWith(AllSizeTokens)

SpecSeg == InitSeg /\ [][NextSeg]_vars

\* memory_size >= 1 and only positive integers (or non-integers) as sizes
NextSegPos == NextSegWith(PositiveSizeTokens)

SpecSegPos == InitSegPos /\ [][NextSegPos]_vars

-----------------------------------------------------------------------------
(* merge_free_list called on its own, on any list of (start, size) tuples *)

MergeBlocks == (0..MergeMaxStart) \X ((0 - 1)..MergeMaxSize)

InitMerge ==
    /\ mode = "merge_free_list"
    /\ calls \in {<<fl>> : fl \in SeqsUpTo(MergeBlocks, MergeMaxBlocks)}
    /\ memory_size = 0
    /\ free_list = <<>>
    /\ allocated_segments = <<>>
    /\ out = [msg |-> ""]
    /\ nonpos = 0
    /\ roundtrip = NoRoundtrip
    /\ pc = "loop"
    /\ page_seq = <<>>
    /\ frame_count = 0
    /\ algo = ""
    /\ frames = <<>>
    /\ queue = <<>>
    /\ usage_order = <<>>
    /\ states = <<>>
    /\ fault_flags = <<>>
    /\ faults = 0
    /\ pos = 0

\* free_list = merge_free_list(free_list), on the list the last call returned
MergeCall ==
    /\ mode = "merge_free_list"
    /\ Len(calls) <= MaxCalls
    /\ calls' = Append(calls, merge_free_list(calls[Len(calls)]))
    /\ UNCHANGED <<mode, pagingVars, segVars>>

NextMerge == MergeCall

SpecMerge == InitMerge /\ [][NextMerge]_vars

-----------------------------------------------------------------------------
(* Claims about paging (SpecPaging) *)

\* number of True entries of a list of booleans
CountTrue(flags) == Cardinality({i \in 1..Len(flags) : flags[i]})

\* C2: for simulate_fifo and simulate_lru with frame_count >= 1 the run returns
\* (no exception ends it), the returned states and fault_flags have exactly one
\* entry per reference, and the returned faults is the number of True flags.
C2_TraceAndCount ==
    frame_count >= 1 =>
        /\ pc \in {"loop", "return"}
        /\ Len(states) = pos /\ Len(fault_flags) = pos
        /\ faults = CountTrue(fault_flags)
        /\ pc = "return" =>
              /\ Len(states) = Len(page_seq)
              /\ Len(fault_flags) = Len(page_seq)

\* a run with frame_count >= 1 returned after both hits and faults
C2_Witness ==
    /\ frame_count >= 1 /\ pc = "return" /\ Len(page_seq) = MaxLen
    /\ faults >= 2 /\ faults < Len(fault_flags)

DefaultFifoReturned ==
    /\ algo = "fifo" /\ page_seq = DefaultPageSeq /\ frame_count = DefaultFrameCount
    /\ pc = "return"

DefaultLruReturned ==
    /\ algo = "lru" /\ page_seq = DefaultPageSeq /\ frame_count = DefaultFrameCount
    /\ pc = "return"

\* C3 as stated: FIFO on [7,0,1,2,0,3,0,4,2,3,0,3,2] with 3 frames returns 9 faults.
C3_FifoNineFaults == DefaultFifoReturned => faults = 9

\* C3 as amended: FIFO on [7,0,1,2,0,3,0,4,2,3,0,3,2] with 3 frames returns 10
\* faults (every reference faults except the 5th, 12th and 13th).
C3_FifoTenFaults ==
    DefaultFifoReturned =>
        /\ faults = 10
        /\ fault_flags = <<TRUE, TRUE, TRUE, TRUE, FALSE, TRUE, TRUE, TRUE, TRUE,
                           TRUE, TRUE, FALSE, FALSE>>

C3_Witness == DefaultFifoReturned

\* C4 as stated: LRU on [7,0,1,2,0,3,0,4,2,3,0,3,2] with 3 frames returns 10 faults.
C4_LruTenFaults == DefaultLruReturned => faults = 10

\* C4 as amended: LRU on [7,0,1,2,0,3,0,4,2,3,0,3,2] with 3 frames returns 9
\* faults (every reference faults except the 5th, 7th, 12th and 13th).
C4_LruNineFaults ==
    DefaultLruReturned =>
        /\ faults = 9
        /\ fault_flags = <<TRUE, TRUE, TRUE, TRUE, FALSE, TRUE, FALSE, TRUE, TRUE,
                           TRUE, TRUE, FALSE, FALSE>>

C4_Witness == DefaultLruReturned /\ faults = CountTrue(fault_flags)

\* C5 as stated: with frame_count = 0 both policies run to completion (no eviction
\* is attempted on an empty resident set, so no exception ends the run), every
\* processed reference is recorded as a fault and the frame table stays empty.
C5_ZeroFramesCompletes ==
    frame_count = 0 =>
        /\ pc \in {"loop", "return"}
        /\ frames = <<>>
        /\ \A i \in 1..Len(fault_flags) : fault_flags[i]
        /\ pc = "return" => Len(states) = Len(page_seq)

\* the largest element of a non-empty set of integers
Max(S) == CHOOSE m \in S : \A x \in S : x <= m

\* the reference (1-based) at which page p, resident now, was loaded: its last fault
LoadedAt(p) == Max({i \in 1..pos : page_seq[i] = p /\ fault_flags[i]})

\* the most recent reference (hit or load) to page p so far
LastRef(p) == Max({i \in 1..pos : page_seq[i] = p})

\* the step faults with every frame occupied
FaultWhenFull(page) == ~In(page, frames) /\ Len(frames) = frame_count

\* the step replaces page e by page and e is first among the resident pages in
\* the order given by At
Evicts(e, page, At(_)) ==
    /\ e \in Range(frames) /\ e \notin Range(frames')
    /\ Range(frames') = (Range(frames) \ {e}) \cup {page}
    /\ \A r \in Range(frames) : At(e) <= At(r)

\* C12 (SpecPaging): in simulate_fifo with frame_count >= 1, a fault with the frame
\* table full evicts the resident page that was loaded earliest among the resident
\* pages; a hit leaves the FIFO queue as it is.
C12_FifoEvictsEarliestLoaded ==
    [][(frame_count >= 1 /\ FifoStep) =>
          LET page == page_seq[pos + 1] IN
          /\ In(page, frames) => UNCHANGED <<queue, frames>>
          /\ FaultWhenFull(page) => \E e \in Range(frames) : Evicts(e, page, LoadedAt)]_vars

\* FIFO evicted the page that had been hit by the reference just before
C12_Witness ==
    /\ algo = "fifo" /\ frame_count >= 2 /\ pos >= 2 /\ pc = "loop"
    /\ fault_flags[pos] /\ ~fault_flags[pos - 1]
    /\ CountTrue(SubSeq(fault_flags, 1, pos - 1)) >= frame_count
    /\ ~In(page_seq[pos - 1], frames)

\* order with page moved to its end, the other pages keeping their order
MovedToEnd(order, page) ==
    LET other(x) == x # page IN Append(SelectSeq(order, other), page)

\* C13 (SpecPaging): in simulate_lru with frame_count >= 1, a fault with the frame
\* table full evicts the resident page whose most recent reference (hit or load)
\* is the earliest among the resident pages; a hit moves the referenced page to
\* the most-recent end of usage_order and keeps the frames.
C13_LruEvictsLeastRecent ==
    [][(frame_count >= 1 /\ LruStep) =>
          LET page == page_seq[pos + 1] IN
          /\ In(page, frames) =>
                /\ usage_order' = MovedToEnd(usage_order, page)
                /\ UNCHANGED frames
          /\ FaultWhenFull(page) => \E e \in Range(frames) : Evicts(e, page, LastRef)]_vars

\* LRU kept the page hit just before and evicted a page loaded after it
C13_Witness ==
    /\ algo = "lru" /\ frame_count >= 2 /\ pos >= 3 /\ pc = "loop"
    /\ fault_flags[pos] /\ ~fault_flags[pos - 1]
    /\ CountTrue(SubSeq(fault_flags, 1, pos - 1)) >= frame_count
    /\ In(page_seq[pos - 1], frames)
    /\ page_seq[pos - 1] = page_seq[1]

\* no element occurs twice
NoDuplicates(s) == \A i, j \in 1..Len(s) : s[i] = s[j] => i = j

\* the eviction structure of the policy that runs
EvictionOrder == IF algo = "fifo" THEN queue ELSE usage_order

\* C15 (SpecPaging): for both policies and frame_count >= 1, after every processed
\* reference the eviction structure (queue / usage_order) holds no duplicates and
\* its members are exactly the pages held in frames.
C15_OrderMatchesFrames ==
    frame_count >= 1 =>
        /\ NoDuplicates(EvictionOrder)
        /\ Range(EvictionOrder) = Range(frames)

\* both structures hold several pages in different orders
C15_Witness ==
    /\ frame_count >= 2 /\ Len(frames) = frame_count /\ pos = MaxLen
    /\ EvictionOrder # frames
    /\ Range(EvictionOrder) = Range(frames)

\* C16 (SpecPaging): for both policies and frame_count >= 1, after every processed
\* reference at most frame_count frames are occupied, they hold pairwise distinct
\* pages, every emitted trace entry has exactly frame_count elements, and the
\* entry of the last reference is the occupied slots followed by '-' padding.
C16_FramesBounded ==
    frame_count >= 1 =>
        /\ Len(frames) <= frame_count
        /\ NoDuplicates(frames)
        /\ \A i \in 1..Len(states) : Len(states[i]) = frame_count
        /\ (pos >= 1 /\ Len(states) = pos) =>
              /\ SubSeq(states[pos], 1, Len(frames)) = frames
              /\ \A j \in (Len(frames) + 1)..frame_count : states[pos][j] = "-"

\* a trace with a padded entry and, after an eviction, a full one
C16_Witness ==
    /\ frame_count >= 2 /\ pos >= 3 /\ pc = "return"
    /\ Len(states[1]) = frame_count /\ states[1][frame_count] = "-"
    /\ Len(frames) = frame_count /\ faults > frame_count

\* C17 (SpecPaging): for both policies and frame_count >= 1, a reference changes
\* at most one slot of the frame table: a hit changes none; a fault while a slot
\* is unused fills the lowest unused slot (the one after the occupied slots) and
\* keeps the others; a fault with every slot occupied writes the new page into
\* the slot that held the evicted page (the head of the eviction structure, no
\* longer resident afterwards) and keeps the others.
C17_OneSlotChanges ==
    [][(frame_count >= 1 /\ (FifoStep \/ LruStep)) =>
          LET page == page_seq[pos + 1] IN
          /\ In(page, frames) => UNCHANGED frames
          /\ (~In(page, frames) /\ Len(frames) < frame_count) =>
                /\ Len(frames') = Len(frames) + 1
                /\ frames'[Len(frames) + 1] = page
                /\ \A j \in 1..Len(frames) : frames'[j] = frames[j]
          /\ FaultWhenFull(page) =>
                \E k \in 1..Len(frames) :
                   /\ frames[k] = Head(EvictionOrder)
                   /\ frames[k] \notin Range(frames')
                   /\ frames' = [frames EXCEPT ![k] = page]]_vars

\* with every frame occupied, a fault replaced the page of the second slot and
\* kept the page of the first
C17_Witness ==
    /\ frame_count >= 2 /\ pos >= 3 /\ pc = "loop"
    /\ fault_flags[pos]
    /\ CountTrue(SubSeq(fault_flags, 1, pos - 1)) >= frame_count
    /\ states[pos][1] = states[pos - 1][1]
    /\ states[pos][2] # states[pos - 1][2]

\* s is the list t with exactly one element appended
OneAppended(s, t) == Len(t) = Len(s) + 1 /\ SubSeq(t, 1, Len(s)) = s

\* s is the list t, or t with one element appended
AtMostOneAppended(s, t) == t = s \/ OneAppended(s, t)

\* C18 (SpecPaging): the trace is append-only: a step never changes an entry of
\* states or a flag of fault_flags that was already produced; every processed
\* reference (every step when frame_count >= 1) appends exactly one entry and one
\* flag, and a step that raises appends at most one flag and no entry.
C18_TraceAppendOnly ==
    [][/\ AtMostOneAppended(states, states')
       /\ AtMostOneAppended(fault_flags, fault_flags')
       /\ ((FifoStep \/ LruStep) /\ (frame_count >= 1 \/ pos' = pos + 1)) =>
             /\ OneAppended(states, states')
             /\ OneAppended(fault_flags, fault_flags')
       /\ pc' \notin {"loop", "return"} => states' = states]_vars

\* a full trace whose first entry still shows the page that was replaced later
C18_Witness ==
    /\ frame_count >= 1 /\ pos = MaxLen /\ pc = "return"
    /\ Len(states) = MaxLen
    /\ states[1][1] = page_seq[1]
    /\ ~In(page_seq[1], frames)

\* C19 (SpecLru): LRU inclusion. For every reference string and frame_count >= 1,
\* after each step the pages resident under simulate_lru with frame_count frames
\* (the run the loop made, which simulate_lru on the references seen reproduces)
\* are among the pages resident with frame_count + 1 frames after the same step,
\* and the run with frame_count + 1 frames has no more faults.
C19_LruInclusion ==
    (algo = "lru" /\ frame_count >= 1) =>
        LET seen == SubSeq(page_seq, 1, pos)
            narrow == simulate_lru(seen, frame_count)
            wide == simulate_lru(seen, frame_count + 1)
        IN  /\ narrow.frames = frames /\ narrow.usage_order = usage_order
            /\ narrow.faults = faults /\ narrow.fault_flags = fault_flags
            /\ narrow.pc = "loop" /\ wide.pc = "loop"
            /\ Range(frames) \subseteq Range(wide.frames)
            /\ wide.faults <= faults

\* the run with one frame more has evicted a page too, and has fewer faults
C19_Witness ==
    /\ algo = "lru" /\ frame_count >= 2 /\ pc = "return"
    /\ LET wide == simulate_lru(page_seq, frame_count + 1)
       IN  /\ wide.faults > frame_count + 1
           /\ wide.faults < faults
           /\ Range(frames) # Range(wide.frames)

\* C20 (SpecPaging): for both policies and frame_count >= 1, right after the
\* reference to page p is processed p is resident in a frame and appears in that
\* step's trace entry, and the reference is flagged as a fault if and only if p
\* was not resident right before the step.
C20_ReferencedPageResident ==
    [][(frame_count >= 1 /\ (FifoStep \/ LruStep)) =>
          LET page == page_seq[pos + 1] IN
          /\ pos' = pos + 1
          /\ page \in Range(frames')
          /\ \E j \in 1..Len(frames') : states'[pos'][j] = page
          /\ fault_flags'[pos'] = (page \notin Range(frames))]_vars

\* a trace with a hit and with the fault of a page that had been evicted before
C20_Witness ==
    /\ frame_count >= 1 /\ pos >= 3 /\ pc = "loop"
    /\ \E i \in 1..pos : ~fault_flags[i]
    /\ \E i \in 1..(pos - 1) : page_seq[i] = page_seq[pos] /\ fault_flags[i]
    /\ fault_flags[pos]
    /\ In(page_seq[pos], frames)

-----------------------------------------------------------------------------
(* Claims about segmentation *)

\* the address ranges held by the free list and by the segment table
InRange(block, a) == block[1] <= a /\ a < block[1] + block[2]

CoverCount(a) ==
    Cardinality({i \in 1..Len(free_list) : InRange(free_list[i], a)})
        + Cardinality({k \in DOMAIN allocated_segments : InRange(allocated_segments[k], a)})

Within(block) == block[2] >= 1 /\ block[1] >= 0 /\ block[1] + block[2] <= memory_size

\* C1 (SpecSegPos): with memory_size >= 1 and positive sizes, after any sequence of
\* commands the live segments and the free ranges are non-empty ranges inside
\* [0, memory_size), pairwise disjoint, and together they cover every address of
\* [0, memory_size): each address lies in exactly one of them.
C1_DisjointCover ==
    mode = "segmentation" =>
        /\ \A i \in 1..Len(free_list) : Within(free_list[i])
        /\ \A k \in DOMAIN allocated_segments : Within(allocated_segments[k])
        /\ \A a \in 0..(memory_size - 1) : CoverCount(a) = 1

\* a deallocation left a live segment between two free ranges
C1_Witness ==
    /\ out.msg = "Deallocated"
    /\ DOMAIN allocated_segments # {}
    /\ Len(free_list) >= 2

SegUnchanged == UNCHANGED <<free_list, allocated_segments>>

\* the text of every integer size the model types
IntTokenOf == [n \in (0 - MaxNeg)..MaxSize |-> IntToken(n)]

\* the command line "allocate <id> <n>" for an integer n
AllocateInt(id, n) == Allocate(<<id, IntTokenOf[n]>>)

\* C6 as stated (here with memory_size >= 1): an allocate command for a fresh id
\* whose size is an integer <= 0 prints the invalid-size error and leaves free list and segment table as they were.
C6_NonPositiveRejected ==
    [][\A id \in SegIds, n \in (0 - MaxNeg)..0 :
          (memory_size >= 1 /\ id \notin DOMAIN allocated_segments /\ AllocateInt(id, n))
          => (out'.msg = "InvalidSize" /\ SegUnchanged)]_vars

\* C7 (SpecSeg): in any reachable state an allocate command for a fresh id with a
\* positive size larger than the length of every free range fails: allocate_segment
\* finds no block, "Allocation failed" is printed, and free list and table are
\* unchanged.
C7_OversizeFails ==
    [][\A id \in SegIds, n \in 1..MaxSize :
          (/\ id \notin DOMAIN allocated_segments
           /\ \A i \in 1..Len(free_list) : free_list[i][2] < n
           /\ AllocateInt(id, n))
          => (out'.msg = "AllocationFailed" /\ SegUnchanged)]_vars

\* an allocation failed although free memory and live segments exist
C7_Witness ==
    /\ out.msg = "AllocationFailed"
    /\ Len(free_list) >= 1 /\ free_list[1][2] >= 1
    /\ DOMAIN allocated_segments # {}

\* C8 (SpecSeg): allocate with an id already in the table, deallocate with an id not
\* in the table, and allocate/deallocate of wrong arity or with a non-integer size
\* each print their error and leave free list and segment table unchanged.
C8_FailedCommandsKeepState ==
    [][/\ \A id \in SegIds, n \in (0 - MaxNeg)..MaxSize :
            (id \in DOMAIN allocated_segments /\ AllocateInt(id, n))
            => (out'.msg = "AlreadyAllocated" /\ SegUnchanged)
       /\ \A id \in SegIds, t \in NonIntTokens :
            Allocate(<<id, t>>) => (out'.msg = "InvalidSize" /\ SegUnchanged)
       /\ \A args \in AllocateWrongArity :
            Allocate(args) => (out'.msg = "InvalidFormat" /\ SegUnchanged)
       /\ \A id \in SegIds :
            (id \notin DOMAIN allocated_segments /\ Deallocate(<<id>>))
            => (out'.msg = "NotFound" /\ SegUnchanged)
       /\ \A args \in DeallocateWrongArity :
            Deallocate(args) => (out'.msg = "InvalidFormat" /\ SegUnchanged)]_vars

\* a duplicate allocate was refused while segments are live and memory is free
C8_Witness ==
    /\ out.msg = "AlreadyAllocated"
    /\ DOMAIN allocated_segments = SegIds
    /\ Len(free_list) >= 1

\* C9 (SpecSegPos): a successful allocate followed at once by the deallocate of the
\* same id leaves the free list exactly as it was before the allocate, and the
\* segment table with its prior contents.
C9_RoundTrip ==
    roundtrip.phase = "deallocated" =>
        /\ free_list = roundtrip.free
        /\ allocated_segments = roundtrip.table

\* a round trip happened in a fragmented memory
C9_Witness ==
    /\ roundtrip.phase = "deallocated"
    /\ Len(roundtrip.free) >= 2
    /\ DOMAIN roundtrip.table # {}

\* the effect first-fit by address has on the free list fl for size s, block i
TakeFrom(fl, i, s) ==
    IF fl[i][2] = s THEN PopAt(fl, i)
    ELSE [fl EXCEPT ![i] = <<fl[i][1] + s, fl[i][2] - s>>]

LowestFit(fl, i, s) ==
    /\ fl[i][2] >= s
    /\ \A j \in 1..Len(fl) : fl[j][2] >= s => fl[i][1] <= fl[j][1]

\* C10 as stated: in any state reachable with memory_size >= 1 a successful allocate of a positive size s
\* returns the start of the free range with the lowest start address among those
\* of length >= s, and that range is removed (length = s) or loses s units at
\* its start, all other free ranges unchanged; on [(0,10),(20,5),(30,8)] size 5
\* returns 0 and leaves (5,5) in place of (0,10).
C10_FirstFitLowestAddress ==
    [][/\ \A id \in SegIds, n \in 1..MaxSize :
            (memory_size >= 1 /\ out'.msg = "Allocated" /\ AllocateInt(id, n))
            => \E i \in 1..Len(free_list) :
                  /\ LowestFit(free_list, i, n)
                  /\ allocated_segments'[id] = <<free_list[i][1], n>>
                  /\ free_list' = TakeFrom(free_list, i, n)
       /\ allocate_segment(<<<<0, 10>>, <<20, 5>>, <<30, 8>>>>, 5)
            = [found |-> TRUE, start |-> 0,
               free_list |-> <<<<5, 5>>, <<20, 5>>, <<30, 8>>>>]]_vars

\* the address just past the block
EndOf(block) == block[1] + block[2]

\* C14 (SpecSegPos): with memory_size >= 1 and positive sizes, after every command
\* the free list holds only ranges of positive length, no two of which overlap and
\* no two of which are adjacent (none ends exactly where another starts).
C14_NoOverlapNoAdjacent ==
    mode = "segmentation" =>
        /\ \A i \in 1..Len(free_list) : free_list[i][2] >= 1
        /\ \A i, j \in 1..Len(free_list) :
              i # j =>
                 /\ EndOf(free_list[i]) # free_list[j][1]
                 /\ \/ EndOf(free_list[i]) <= free_list[j][1]
                    \/ EndOf(free_list[j]) <= free_list[i][1]

\* a segment in the middle of memory was freed and coalesced with the free ranges
\* on both of its sides
C14_Witness ==
    /\ out.msg = "Deallocated"
    /\ out.start > 0 /\ out.start + out.size < memory_size
    /\ free_list = <<<<0, memory_size>>>>
    /\ DOMAIN allocated_segments = {}

-----------------------------------------------------------------------------
(* Claims about merge_free_list on its own (SpecMerge) *)

\* start addresses in ascending order
SortedByStart(fl) == \A i \in 1..(Len(fl) - 1) : fl[i][1] <= fl[i + 1][1]

\* C11 (SpecMerge): merge_free_list is idempotent: for every list of (start, size)
\* tuples, merging the list a call returned returns that same list again.
C11_MergeIdempotent ==
    \A i \in 2..(Len(calls) - 1) : calls[i + 1] = calls[i]

\* an unsorted list of three blocks was merged into one block, and merged again
C11_Witness ==
    /\ Len(calls) = MaxCalls + 1
    /\ Len(calls[1]) = 3 /\ ~SortedByStart(calls[1])
    /\ Len(calls[2]) = 1

=============================================================================
